---------------------------- MODULE Spec2Model ----------------------------
(***************************************************************************)
(* Model of the A* search engine of AStarJFA.py (Node, astar_heuristic,    *)
(* ucs_heuristic, AStar) and of the batch loops of                         *)
(* JFA/dataset_generator.py.                                               *)
(*                                                                         *)
(* Numbers.  The program computes with floats.  The model uses fixed-point *)
(* integers: a success probability p is stored in tenths (8 means 0.8) and *)
(* a target value is stored in hundredths (1000 means 10.0), so that the   *)
(* at most two successive products value * p that a target can see are     *)
(* exact.  SELECTED is stored in halves (0, 1, 2 for 0, 0.5, 1).           *)
(***************************************************************************)
EXTENDS Integers, Sequences, FiniteSets, TLC

VARIABLES problem, heuristic, nodes, frontier, explored, node, expansions,
          branchFactor, duplicate_states, pc, result, memory, requeued, walk,
          entry, quantity, start_idx, solve_problems, save, index, bpc,
          csv_file, csv_content, completed, interrupts

astarVars == <<problem, heuristic, nodes, frontier, explored, node, expansions,
               branchFactor, duplicate_states, pc, result, memory, requeued>>

batchVars == <<entry, quantity, start_idx, solve_problems, save, index, bpc,
               csv_file, csv_content, completed, interrupts>>

vars == <<astarVars, walk, batchVars>>

(***************************************************************************)
(* Bounds of the model.                                                    *)
(***************************************************************************)
MaxAmmo == 2
MaxQuantity == 3
MaxInterrupts == 2
MaxExpansions == 24

EffectorIds(state) == DOMAIN state.Effectors
TargetIds(state) == DOMAIN state.Targets

(***************************************************************************)
(* Problem instances: the states env.reset(simProblem) can hand to AStar.  *)
(***************************************************************************)
ValueSet == {1000, 2000}
PSuccessSet == {5, 8}

ProblemsOfSize(ne, nt) ==
    { [Effectors |-> ef, Targets |-> tg, Opportunities |-> op] :
        ef \in [0 .. ne - 1 -> 1 .. MaxAmmo],
        tg \in [0 .. nt - 1 -> [VALUE : ValueSet, SELECTED : {0}]],
        op \in [(0 .. ne - 1) \X (0 .. nt - 1) ->
                   [SELECTABLE : BOOLEAN, PSUCCESS : PSuccessSet]] }

\* The problem sizes looked at, as <<effectors, targets>>.
Sizes == {<<1, 1>>, <<1, 2>>, <<2, 1>>, <<2, 2>>, <<1, 3>>, <<3, 1>>}

Problems == UNION { ProblemsOfSize(sz[1], sz[2]) : sz \in Sizes }

(***************************************************************************)
(* The environment's transition function, env.update_state(action, state). *)
(* The simulator module is not among the source files; the function is     *)
(* taken from what the specification says of it: the reward is the         *)
(* target's value times the opportunity's success probability and is taken *)
(* off the target's value; the target's SELECTED grows by 0.5 and at 1 no  *)
(* opportunity against it is selectable; the effector spends one of the    *)
(* engagements it has left (Effectors holds that count) and with none left *)
(* none of its opportunities is selectable; the opportunity used is no     *)
(* longer selectable; terminal is true exactly when no opportunity of the  *)
(* new state is selectable.                                                *)
(***************************************************************************)
Selectable(state, e, t) == state.Opportunities[<<e, t>>].SELECTABLE

AnySelectable(state) ==
    \E e \in EffectorIds(state), t \in TargetIds(state) : Selectable(state, e, t)

ActionReward(state, action) ==
    (state.Targets[action[2]].VALUE
       * state.Opportunities[<<action[1], action[2]>>].PSUCCESS) \div 10

UpdateState(action, state) ==
    LET e == action[1]
        t == action[2]
        reward == ActionReward(state, action)
        ammo == state.Effectors[e] - 1
        sel == state.Targets[t].SELECTED + 1
        new_state ==
            [Effectors |-> [state.Effectors EXCEPT ![e] = ammo],
             Targets |-> [state.Targets EXCEPT
                            ![t] = [VALUE |-> @.VALUE - reward, SELECTED |-> sel]],
             Opportunities |->
                [o \in DOMAIN state.Opportunities |->
                    [state.Opportunities[o] EXCEPT
                        !.SELECTABLE = /\ @
                                       /\ o # <<e, t>>
                                       /\ ~(o[2] = t /\ sel >= 2)
                                       /\ ~(o[1] = e /\ ammo <= 0)]]]
    IN [state |-> new_state, reward |-> reward, terminal |-> ~AnySelectable(new_state)]

(***************************************************************************)
(* np.stack(np.where(Opportunities[:, :, SELECTABLE] == True), axis=1):    *)
(* the selectable (effector, target) pairs in row-major order.             *)
(***************************************************************************)
SelectableActions(state) ==
    LET ne == Cardinality(EffectorIds(state))
        nt == Cardinality(TargetIds(state))
        all == [k \in 1 .. ne * nt |-> <<(k - 1) \div nt, (k - 1) % nt>>]
        IsSel(a) == Selectable(state, a[1], a[2])
    IN SelectSeq(all, IsSel)

(***************************************************************************)
(* astar_heuristic(state).                                                 *)
(***************************************************************************)
Min(a, b) == IF a <= b THEN a ELSE b

RECURSIVE SumOver(_, _)
SumOver(f, S) ==
    IF S = {} THEN 0
    ELSE LET x == CHOOSE y \in S : TRUE IN f[x] + SumOver(f, S \ {x})

SelectableCount(state, i) ==
    Cardinality({e \in EffectorIds(state) : Selectable(state, e, i)})

\* RemainingMoves with int() taken of 1 - SELECTED before the doubling
RemainingMovesTruncated(state, i) ==
    Min(((2 - state.Targets[i].SELECTED) \div 2) * 2, 2 * SelectableCount(state, i))

\* int(min((1 - SELECTED) * 2, sum(SELECTABLE column * 2)))
RemainingMoves(state, i) ==
    Min(2 - state.Targets[i].SELECTED, 2 * SelectableCount(state, i))

\* Top taking the other end of the partition: an index of a smallest PSUCCESS
TopLeast(state, i) ==
    CHOOSE e \in EffectorIds(state) :
        \A e2 \in EffectorIds(state) :
            state.Opportunities[<<e, i>>].PSUCCESS <= state.Opportunities[<<e2, i>>].PSUCCESS

\* np.argpartition(PSUCCESS column, -1)[-1:]: an index of a largest PSUCCESS
\* in the column, selectable or not.
Top(state, i) ==
    CHOOSE e \in EffectorIds(state) :
        \A e2 \in EffectorIds(state) :
            state.Opportunities[<<e2, i>>].PSUCCESS <= state.Opportunities[<<e, i>>].PSUCCESS

RECURSIVE SimulateMoves(_, _, _), SimulateMovesFlat(_, _, _)

\* SimulateMoves without value -= reward
SimulateMovesFlat(value, p, moves) ==
    IF moves <= 0 THEN 0
    ELSE (value * p) \div 10 + SimulateMovesFlat(value, p, moves - 1)

\* for move in range(remaining_moves): reward = value * p; ...; value -= reward
SimulateMoves(value, p, moves) ==
    IF moves <= 0 THEN 0
    ELSE LET reward == (value * p) \div 10
         IN reward + SimulateMoves(value - reward, p, moves - 1)

TargetContribution(state, i) ==
    IF state.Targets[i].SELECTED = 2 THEN 0
    ELSE IF RemainingMoves(state, i) = 0 THEN 0
    ELSE SimulateMoves(state.Targets[i].VALUE,
                       state.Opportunities[<<Top(state, i), i>>].PSUCCESS,
                       RemainingMoves(state, i))

astar_heuristic(state) ==
    SumOver([i \in TargetIds(state) |-> TargetContribution(state, i)], TargetIds(state))

ucs_heuristic(state) == 0

\* A heuristic a caller may pass instead: all the value the targets still hold.
value_heuristic(state) ==
    SumOver([i \in TargetIds(state) |-> state.Targets[i].VALUE], TargetIds(state))

HeuristicNames == {"astar_heuristic", "ucs_heuristic", "value_heuristic"}

Heuristic(name, state) ==
    CASE name = "astar_heuristic" -> astar_heuristic(state)
      [] name = "ucs_heuristic" -> ucs_heuristic(state)
      [] name = "value_heuristic" -> value_heuristic(state)

(***************************************************************************)
(* Node.  nodes is the sequence of all Node objects created so far; a node *)
(* is referred to by its index.  parent = 0: the node has no parent        *)
(* attribute.  action = <<>>: the action is None.  A node's state         *)
(* attribute refers to a dict object: memory is the sequence of the state  *)
(* objects allocated so far, addr is the place in it of the object the     *)
(* node refers to, and state is what that object held when the node was    *)
(* built.  requeued lists the nodes pushed back by line 115, in order.     *)
(***************************************************************************)
NewNode(g, action, state, reward, terminal) ==
    [g |-> g, action |-> action, state |-> state, reward |-> reward,
     terminal |-> terminal, parent |-> 0, addr |-> 0]

\* the object self.state refers to
AtAddress(n, a) == [n EXCEPT !.addr = a]

\* WithParent never setting the attribute
WithParentNot(n, parent) == n

\* Node.Parent(parent)
WithParent(n, parent) == [n EXCEPT !.parent = parent]

\* Node.__eq__ between two nodes: the three matrices are element-wise equal.
NodeEq(a, b) ==
    /\ a.state.Effectors = b.state.Effectors
    /\ a.state.Targets = b.state.Targets
    /\ a.state.Opportunities = b.state.Opportunities

\* Node.__lt__ with the comparison turned round
NodeLtReversed(a, b) == a.g > b.g

\* Node.__lt__
NodeLt(a, b) == a.g < b.g

\* `x in list` comparing whole nodes instead of their states
InListWholeNode(ns, x, list) == \E k \in 1 .. Len(list) : ns[list[k]] = x

\* `x in list`, for a list of nodes given by their indices
InList(ns, x, list) == \E k \in 1 .. Len(list) : NodeEq(ns[list[k]], x)

HasParent(n) == n.parent # 0

RECURSIVE SolutionTokens(_, _), SolutionTokensLeafFirst(_, _), Join(_)

\* SolutionTokens putting the node's own action before its parent's
SolutionTokensLeafFirst(ns, n) ==
    IF ns[n].action = <<>> THEN <<>>
    ELSE <<ToString(ns[n].action)>>
            \o (IF HasParent(ns[n])
                THEN <<",">> \o SolutionTokensLeafFirst(ns, ns[n].parent)
                ELSE <<>>)

\* The pieces Node.Solution() concatenates, in order: the parent's solution,
\* a comma, and the node's action formatted by f"{self.action}".
SolutionTokens(ns, n) ==
    IF ns[n].action = <<>> THEN <<>>
    ELSE (IF HasParent(ns[n])
          THEN SolutionTokens(ns, ns[n].parent) \o <<",">>
          ELSE <<>>)
            \o <<ToString(ns[n].action)>>

\* string concatenation, solution += ...
Join(tokens) == IF tokens = <<>> THEN "" ELSE Head(tokens) \o Join(Tail(tokens))

\* Node.Solution(): the actions from the root, each preceded by a comma
Solution(ns, n) == Join(SolutionTokens(ns, n))

(***************************************************************************)
(* heapq on a list of node indices; positions are 0-based as in heapq.     *)
(***************************************************************************)
At(heap, pos) == heap[pos + 1]
Put(heap, pos, item) == [heap EXCEPT ![pos + 1] = item]

RECURSIVE SiftDownLoop(_, _, _, _, _)
SiftDownLoop(ns, heap, startpos, pos, newitem) ==
    IF pos > startpos
    THEN LET parentpos == (pos - 1) \div 2
             parent == At(heap, parentpos)
         IN IF NodeLt(ns[newitem], ns[parent])
            THEN SiftDownLoop(ns, Put(heap, pos, parent), startpos, parentpos, newitem)
            ELSE Put(heap, pos, newitem)
    ELSE Put(heap, pos, newitem)

\* heapq._siftdown(heap, startpos, pos)
SiftDown(ns, heap, startpos, pos) ==
    SiftDownLoop(ns, heap, startpos, pos, At(heap, pos))

RECURSIVE SiftUpLoop(_, _, _, _, _)
SiftUpLoop(ns, heap, startpos, pos, newitem) ==
    LET endpos == Len(heap)
        childpos == 2 * pos + 1
        rightpos == childpos + 1
        smaller == IF rightpos < endpos
                      /\ ~NodeLt(ns[At(heap, childpos)], ns[At(heap, rightpos)])
                   THEN rightpos ELSE childpos
    IN IF childpos < endpos
       THEN SiftUpLoop(ns, Put(heap, pos, At(heap, smaller)), startpos, smaller, newitem)
       ELSE SiftDown(ns, Put(heap, pos, newitem), startpos, pos)

\* heapq._siftup(heap, pos)
SiftUp(ns, heap, pos) == SiftUpLoop(ns, heap, pos, pos, At(heap, pos))

\* heapq.heappush(heap, item)
HeapPush(ns, heap, item) == SiftDown(ns, Append(heap, item), 0, Len(heap))

\* heapq.heappop(heap): the item returned and the heap left
HeapPop(ns, heap) ==
    LET lastelt == heap[Len(heap)]
        rest == SubSeq(heap, 1, Len(heap) - 1)
    IN IF rest # <<>>
       THEN [item |-> heap[1], heap |-> SiftUp(ns, Put(rest, 0, lastelt), 0)]
       ELSE [item |-> lastelt, heap |-> rest]

(***************************************************************************)
(* AStar(state, heuristic).                                                *)
(***************************************************************************)
None == <<>>
Some(x) == <<x>>

\* sum(state['Targets'][:, VALUE])
TotalValue(state) ==
    SumOver([i \in TargetIds(state) |-> state.Targets[i].VALUE], TargetIds(state))

\* Corrected leaving g as it was queued, the heuristic still subtracted
CorrectedNot(ns, n) == ns

\* Corrected writing the new priority into the parent
CorrectedParent(ns, n) ==
    [ns EXCEPT ![ns[n].parent].g = ns[ns[n].parent].g - ns[n].reward]

\* node.g = node.parent.g - node.reward
Corrected(ns, n) == [ns EXCEPT ![n].g = ns[ns[n].parent].g - ns[n].reward]

\* ChildPriority forgetting the reward of the action
ChildPriorityNoReward(g_node, reward, h) == g_node - h

\* g = node.g - reward; h = heuristic(new_state); Node(g - h, ...)
ChildPriority(g_node, reward, h) == (g_node - reward) - h

\* FailedResult with the counters reset
FailedResultReset(exp, bf) ==
    [solution |-> "failed", g |-> None, expansions |-> 0, branchFactor |-> 0]

\* return "failed", None, expansions, branchFactor
FailedResult(exp, bf) ==
    [solution |-> "failed", g |-> None, expansions |-> exp, branchFactor |-> bf]

\* DeepCopy handing the object itself to update_state
DeepCopyAlias(mem, a) == [memory |-> mem, addr |-> a]

\* copy.deepcopy(state): a new object holding what the object at a holds
DeepCopy(mem, a) == [memory |-> Append(mem, mem[a]), addr |-> Len(mem) + 1]

\* The for loop over the selectable actions of the node being expanded: every
\* child is created; it is pushed unless an equal node is explored or open.
\* update_state works on the object it is given: it writes the new state into
\* it and returns it.
RECURSIVE ExpandChildren(_, _, _, _, _, _, _, _, _)
ExpandChildren(ns, fr, expl, bf, dup, n, actions, hname, mem) ==
    IF actions = <<>>
    THEN [nodes |-> ns, frontier |-> fr, branchFactor |-> bf, duplicate_states |-> dup,
          memory |-> mem]
    ELSE LET action == Head(actions)
             copy == DeepCopy(mem, ns[n].addr)
             upd == UpdateState(action, copy.memory[copy.addr])
             mem2 == [copy.memory EXCEPT ![copy.addr] = upd.state]
             h == Heuristic(hname, upd.state)
             child == AtAddress(
                          WithParent(
                              NewNode(ChildPriority(ns[n].g, upd.reward, h), action,
                                      upd.state, upd.reward, upd.terminal), n),
                          copy.addr)
             ns2 == Append(ns, child)
         IN IF ~InList(ns, child, expl) /\ ~InList(ns, child, fr)
            THEN ExpandChildren(ns2, HeapPush(ns2, fr, Len(ns2)), expl, bf + 1, dup,
                                n, Tail(actions), hname, mem2)
            ELSE ExpandChildren(ns2, fr, expl, bf, dup + 1, n, Tail(actions), hname,
                                mem2)

AStarInit ==
    /\ problem \in Problems
    /\ heuristic \in HeuristicNames
    /\ nodes = <<AtAddress(NewNode(TotalValue(problem), <<>>, problem, 0, FALSE), 1)>>
    /\ memory = <<problem>>
    /\ requeued = <<>>
    /\ frontier = <<1>>
    /\ explored = <<>>
    /\ node = 1
    /\ expansions = 0
    /\ branchFactor = 0
    /\ duplicate_states = 0
    /\ pc = "loop"
    /\ result = [solution |-> "", g |-> None, expansions |-> 0, branchFactor |-> 0]

\* The batch loops at rest, while a search or a walk is what is looked at.
BatchIdle ==
    /\ entry = "solver"
    /\ quantity = 0
    /\ start_idx = 0
    /\ solve_problems = TRUE
    /\ save = TRUE
    /\ index = -1
    /\ bpc = "done"
    /\ csv_file = <<>>
    /\ csv_content = <<>>
    /\ completed = {}
    /\ interrupts = 0

Init ==
    /\ AStarInit
    /\ walk = problem
    /\ BatchIdle

\* while frontier: node = heappop(frontier); if node in explored: continue;
\* expansions += 1
Pop ==
    /\ pc = "loop"
    /\ frontier # <<>>
    /\ expansions < MaxExpansions
    /\ LET popped == HeapPop(nodes, frontier)
       IN /\ frontier' = popped.heap
          /\ node' = popped.item
          /\ IF InList(nodes, nodes[popped.item], explored)
             THEN pc' = "loop" /\ UNCHANGED expansions
             ELSE pc' = "popped" /\ expansions' = expansions + 1
    /\ UNCHANGED <<problem, heuristic, nodes, explored, branchFactor,
                   duplicate_states, result, memory, requeued, walk, batchVars>>

\* a terminal node whose g is confirmed: return
Accept ==
    /\ pc = "popped"
    /\ HasParent(nodes[node])
    /\ nodes[node].terminal
    /\ nodes[node].g = nodes[nodes[node].parent].g - nodes[node].reward
    /\ result' = [solution |-> Solution(nodes, node), g |-> Some(nodes[node].g),
                  expansions |-> expansions, branchFactor |-> branchFactor]
    /\ pc' = "returned"
    /\ UNCHANGED <<problem, heuristic, nodes, frontier, explored, node, expansions,
                   branchFactor, duplicate_states, memory, requeued, walk, batchVars>>

\* Requeue counting the push of line 115 as an insertion
RequeueCounted ==
    /\ pc = "popped"
    /\ HasParent(nodes[node])
    /\ nodes[node].terminal
    /\ nodes[node].g # nodes[nodes[node].parent].g - nodes[node].reward
    /\ nodes' = Corrected(nodes, node)
    /\ frontier' = HeapPush(nodes', frontier, node)
    /\ requeued' = Append(requeued, node)
    /\ branchFactor' = branchFactor + 1
    /\ pc' = "loop"
    /\ UNCHANGED <<problem, heuristic, explored, node, expansions,
                   duplicate_states, result, memory, walk, batchVars>>

\* a terminal node whose g is not confirmed: correct it and push it back
Requeue ==
    /\ pc = "popped"
    /\ HasParent(nodes[node])
    /\ nodes[node].terminal
    /\ nodes[node].g # nodes[nodes[node].parent].g - nodes[node].reward
    /\ nodes' = Corrected(nodes, node)
    /\ frontier' = HeapPush(nodes', frontier, node)
    /\ requeued' = Append(requeued, node)
    /\ pc' = "loop"
    /\ UNCHANGED <<problem, heuristic, explored, node, expansions, branchFactor,
                   duplicate_states, result, memory, walk, batchVars>>

\* the popped node is the root or is not terminal: lines 117 to 139 run
ExpandEnabled ==
    /\ pc = "popped"
    /\ ~(HasParent(nodes[node]) /\ nodes[node].terminal)

\* any other node: correct its g, close it and expand it
Expand ==
    /\ ExpandEnabled
    /\ LET ns == IF HasParent(nodes[node]) THEN Corrected(nodes, node) ELSE nodes
           expl == Append(explored, node)
           out == ExpandChildren(ns, frontier, expl, branchFactor, duplicate_states,
                                 node, SelectableActions(memory[ns[node].addr]),
                                 heuristic, memory)
       IN /\ explored' = expl
          /\ memory' = out.memory
          /\ nodes' = out.nodes
          /\ frontier' = out.frontier
          /\ branchFactor' = out.branchFactor
          /\ duplicate_states' = out.duplicate_states
    /\ pc' = "loop"
    /\ UNCHANGED <<problem, heuristic, node, expansions, result, requeued, walk,
                   batchVars>>

\* the frontier is empty: return "failed", None, expansions, branchFactor
ReturnFailed ==
    /\ pc = "loop"
    /\ frontier = <<>>
    /\ result' = FailedResult(expansions, branchFactor)
    /\ pc' = "returned"
    /\ UNCHANGED <<problem, heuristic, nodes, frontier, explored, node, expansions,
                   branchFactor, duplicate_states, memory, requeued, walk, batchVars>>

Next == Pop \/ Accept \/ Requeue \/ Expand \/ ReturnFailed

Spec == Init /\ [][Next]_vars

(***************************************************************************)
(* The states reachable from a problem by selectable actions, walked one   *)
(* action at a time; the heuristic is evaluated on each of them.           *)
(***************************************************************************)
WalkInit ==
    /\ AStarInit
    /\ heuristic = "astar_heuristic"
    /\ walk = problem
    /\ BatchIdle

WalkStep ==
    /\ \E k \in 1 .. Len(SelectableActions(walk)) :
          walk' = UpdateState(SelectableActions(walk)[k], walk).state
    /\ UNCHANGED <<astarVars, batchVars>>

SpecWalk == WalkInit /\ [][WalkStep]_vars

(***************************************************************************)
(* The batch loops of dataset_generator.py: solver(), generate_dataset()   *)
(* and the module's main block.  index is the loop variable i; bpc is the  *)
(* place the batch is at: "for" the loop head, "try" inside the try block  *)
(* before the row is built, "row" inside it with the row built, "prompt"   *)
(* the input() of the except block, "export" after the loop.  csv_file is  *)
(* what is written to the CSV file, csv_content the list held in memory,   *)
(* completed the indices whose try block ran to its end.                   *)
(***************************************************************************)
Entries == {"solver", "generate_dataset", "main"}

HeaderRow == [kind |-> "header", i |-> 0]
ResultRow(i) == [kind |-> "row", i |-> i]

\* the search is not what is looked at: one fixed problem, never started
AStarIdle ==
    /\ problem = CHOOSE p \in ProblemsOfSize(1, 1) : TRUE
    /\ heuristic = "astar_heuristic"
    /\ nodes = <<AtAddress(NewNode(TotalValue(problem), <<>>, problem, 0, FALSE), 1)>>
    /\ memory = <<problem>>
    /\ requeued = <<>>
    /\ frontier = <<1>>
    /\ explored = <<>>
    /\ node = 1
    /\ expansions = 0
    /\ branchFactor = 0
    /\ duplicate_states = 0
    /\ pc = "loop"
    /\ result = [solution |-> "", g |-> None, expansions |-> 0, branchFactor |-> 0]
    /\ walk = problem

\* range(start_idx, start_idx+quantity), range(quantity),
\* range(numbering_offset, num_problems + numbering_offset)
RangeEnd == start_idx + quantity

BatchInit ==
    /\ AStarIdle
    /\ entry \in Entries
    /\ quantity \in 1 .. MaxQuantity
    /\ start_idx \in (IF entry = "generate_dataset" THEN {0} ELSE {0, 1})
    /\ solve_problems \in (IF entry = "solver" THEN {TRUE} ELSE BOOLEAN)
    /\ save \in (IF entry = "main" THEN BOOLEAN ELSE {TRUE})
    /\ index = start_idx - 1
    /\ bpc = "for"
    /\ csv_file = (IF entry = "solver" THEN <<HeaderRow>> ELSE <<>>)
    /\ csv_content = (IF entry = "main" THEN <<HeaderRow>> ELSE <<>>)
    /\ completed = {}
    /\ interrupts = 0

\* for i in range(...): the next index is taken
ForNext ==
    /\ bpc = "for"
    /\ index + 1 < RangeEnd
    /\ index' = index + 1
    /\ bpc' = "try"
    /\ UNCHANGED <<astarVars, walk, entry, quantity, start_idx, solve_problems, save,
                   csv_file, csv_content, completed, interrupts>>

\* the range is exhausted: the loop is left
ForEnd ==
    /\ bpc = "for"
    /\ index + 1 >= RangeEnd
    /\ bpc' = "export"
    /\ UNCHANGED <<astarVars, walk, entry, quantity, start_idx, solve_problems, save,
                   index, csv_file, csv_content, completed, interrupts>>

\* the try block up to the built row: the problem is loaded or generated and
\* saved, and solved by the selected solvers
SolveProblem ==
    /\ bpc = "try"
    /\ bpc' = "row"
    /\ UNCHANGED <<astarVars, walk, entry, quantity, start_idx, solve_problems, save,
                   index, csv_file, csv_content, completed, interrupts>>

\* the end of the try block: solver() appends the row to the file,
\* generate_dataset() and main append it to csv_content when they solve
RecordRow ==
    /\ bpc = "row"
    /\ IF entry = "solver"
       THEN csv_file' = Append(csv_file, ResultRow(index)) /\ UNCHANGED csv_content
       ELSE /\ csv_content' = (IF solve_problems
                               THEN Append(csv_content, ResultRow(index))
                               ELSE csv_content)
            /\ UNCHANGED csv_file
    /\ completed' = completed \cup {index}
    /\ bpc' = "for"
    /\ UNCHANGED <<astarVars, walk, entry, quantity, start_idx, solve_problems, save,
                   index, interrupts>>

\* KeyboardInterrupt inside the try block: the except block asks for Enter
Interrupt ==
    /\ bpc \in {"try", "row"}
    /\ interrupts < MaxInterrupts
    /\ interrupts' = interrupts + 1
    /\ bpc' = "prompt"
    /\ UNCHANGED <<astarVars, walk, entry, quantity, start_idx, solve_problems, save,
                   index, csv_file, csv_content, completed>>

\* Enter at the prompt: input() returns, the except block ends and the for
\* loop goes on
PressEnter ==
    /\ bpc = "prompt"
    /\ bpc' = "for"
    /\ UNCHANGED <<astarVars, walk, entry, quantity, start_idx, solve_problems, save,
                   index, csv_file, csv_content, completed, interrupts>>

\* ctrl+c at the prompt, or outside the try block: the KeyboardInterrupt is not
\* caught and the process ends; what is in memory is lost
Abort ==
    /\ bpc \in {"prompt", "for", "export"}
    /\ interrupts < MaxInterrupts
    /\ interrupts' = interrupts + 1
    /\ bpc' = "aborted"
    /\ csv_content' = <<>>
    /\ UNCHANGED <<astarVars, walk, entry, quantity, start_idx, solve_problems, save,
                   index, csv_file, completed>>

\* after the loop: generate_dataset() writes csv_content if solve_problems,
\* main if solve_problems and save; solver() has nothing left to write
Export ==
    /\ bpc = "export"
    /\ csv_file' = (IF \/ (entry = "generate_dataset" /\ solve_problems)
                       \/ (entry = "main" /\ solve_problems /\ save)
                    THEN csv_content ELSE csv_file)
    /\ bpc' = "done"
    /\ UNCHANGED <<astarVars, walk, entry, quantity, start_idx, solve_problems, save,
                   index, csv_content, completed, interrupts>>

NextBatch ==
    ForNext \/ ForEnd \/ SolveProblem \/ RecordRow \/ Interrupt \/ PressEnter
        \/ Abort \/ Export

SpecBatch == BatchInit /\ [][NextBatch]_vars

(***************************************************************************)
(* Reference values the claims compare the program with.                   *)
(***************************************************************************)
Max(a, b) == IF a >= b THEN a ELSE b

RECURSIVE MaxOver(_, _)
MaxOver(f, S) ==
    IF S = {} THEN 0
    ELSE LET x == CHOOSE y \in S : TRUE IN Max(f[x], MaxOver(f, S \ {x}))

\* The largest total reward any action sequence collects from state, by
\* exhaustive enumeration through UpdateState.
RECURSIVE BestReward(_)
BestReward(state) ==
    LET acts == SelectableActions(state)
    IN MaxOver([k \in 1 .. Len(acts) |->
                   UpdateState(acts[k], state).reward
                     + BestReward(UpdateState(acts[k], state).state)],
               1 .. Len(acts))

\* The rewards of the actions on the path from the root to node n.
RECURSIVE PathReward(_, _)
PathReward(ns, n) ==
    IF HasParent(ns[n]) THEN ns[n].reward + PathReward(ns, ns[n].parent)
    ELSE ns[n].reward

\* The actions on the path from the root to node n, in root-to-node order.
RECURSIVE PathActions(_, _)
PathActions(ns, n) ==
    IF HasParent(ns[n]) THEN Append(PathActions(ns, ns[n].parent), ns[n].action)
    ELSE <<>>

Accepted == pc = "returned" /\ result.solution # "failed"
Failed == pc = "returned" /\ result.solution = "failed"

\* C1: with astar_heuristic, the g returned with an accepted terminal node is
\* the sum of the initial target values minus the largest total reward any
\* action sequence obtains from the initial state.
C1_Optimality ==
    (Accepted /\ heuristic = "astar_heuristic")
        => result.g = Some(TotalValue(problem) - BestReward(problem))

C1_Witness ==
    /\ Accepted
    /\ heuristic = "astar_heuristic"
    /\ Len(PathActions(nodes, node)) >= 3
    /\ duplicate_states > 0
    /\ BestReward(problem) > UpdateState(PathActions(nodes, node)[1], problem).reward

\* C2: on every state reachable from the initial state by selectable actions,
\* astar_heuristic is at least the largest total reward still collectable.
C2_Admissible == astar_heuristic(walk) >= BestReward(walk)

C2_Witness ==
    /\ walk # problem
    /\ BestReward(walk) > 0
    /\ astar_heuristic(walk) > BestReward(walk)

\* C3 as stated: the heuristic is non-negative and never exceeds the true best
\* achievable remaining reward.
C3_NeverExceeds ==
    /\ astar_heuristic(walk) >= 0
    /\ astar_heuristic(walk) <= BestReward(walk)

\* C3 as amended: the heuristic is non-negative and never falls below the true
\* best achievable remaining reward.
C3_NonNegativeUpperBound ==
    /\ astar_heuristic(walk) >= 0
    /\ BestReward(walk) <= astar_heuristic(walk)

C3_Witness ==
    /\ AnySelectable(walk)
    /\ walk # problem
    /\ astar_heuristic(walk) = BestReward(walk)

\* C4: with no selectable opportunity in the initial state AStar returns an
\* empty action sequence and a priority equal to the sum of the initial target
\* values.
C4_NoOpportunity ==
    (pc = "returned" /\ ~AnySelectable(problem))
        => (result.solution = "" /\ result.g = Some(TotalValue(problem)))

\* C5: an empty frontier at the loop head makes AStar return "failed", None and
\* the counters as they then are, and AStar returns "failed" from no other state.
C5_FailureSentinel ==
    [][/\ (pc = "loop" /\ frontier = <<>>)
            => (pc' = "returned"
                /\ result' = [solution |-> "failed", g |-> None,
                              expansions |-> expansions,
                              branchFactor |-> branchFactor])
       /\ (pc # "returned" /\ pc' = "returned" /\ result'.solution = "failed")
            => (pc = "loop" /\ frontier = <<>> /\ result'.g = None
                /\ result'.expansions = expansions
                /\ result'.branchFactor = branchFactor)]_vars

C5_Witness == Failed /\ result.expansions = 1 /\ frontier = <<>>

Ids(list) == {list[k] : k \in 1 .. Len(list)}

\* C6: of two created nodes with element-wise equal states the later one is
\* counted in duplicate_states, is never on the frontier, is never popped and is
\* never closed; so no two closed nodes have equal states.
C6_Deduplication ==
    /\ \A j \in 1 .. Len(nodes) :
          (\E i \in 1 .. j - 1 : NodeEq(nodes[i], nodes[j]))
              => /\ j \notin Ids(frontier)
                 /\ j \notin Ids(explored)
                 /\ (pc = "popped" => node # j)
    /\ duplicate_states =
          Cardinality({j \in 1 .. Len(nodes) :
                          \E i \in 1 .. j - 1 : NodeEq(nodes[i], nodes[j])})
    /\ \A k1, k2 \in 1 .. Len(explored) :
          NodeEq(nodes[explored[k1]], nodes[explored[k2]]) => k1 = k2

\* two orderings of the same two actions have met: the first node was expanded,
\* the second rejected
C6_Witness ==
    \E i, j \in 1 .. Len(nodes) :
        /\ i < j
        /\ NodeEq(nodes[i], nodes[j])
        /\ Len(PathActions(nodes, i)) = 2
        /\ PathActions(nodes, j) = <<PathActions(nodes, i)[2], PathActions(nodes, i)[1]>>
        /\ PathActions(nodes, i)[1][1] # PathActions(nodes, i)[2][1]
        /\ PathActions(nodes, i)[1][2] # PathActions(nodes, i)[2][2]
        /\ i \in Ids(explored)
        /\ j \notin Ids(frontier) \cup Ids(explored)

\* The scenario of C7: 2 effectors, 2 targets of values 10 and 20, the only
\* selectable opportunities (0,0) with probability 0.8 and (1,1) with 0.5.
C7_Scenario(state) ==
    /\ DOMAIN state.Effectors = {0, 1}
    /\ DOMAIN state.Targets = {0, 1}
    /\ state.Targets[0] = [VALUE |-> 1000, SELECTED |-> 0]
    /\ state.Targets[1] = [VALUE |-> 2000, SELECTED |-> 0]
    /\ \A o \in DOMAIN state.Opportunities :
          state.Opportunities[o].SELECTABLE = (o \in {<<0, 0>>, <<1, 1>>})
    /\ state.Opportunities[<<0, 0>>].PSUCCESS = 8
    /\ state.Opportunities[<<1, 1>>].PSUCCESS = 5

\* C7: in that scenario AStar accepts a solution holding both actions, with
\* final priority 30 - (8 + 10) = 12.
C7_Example ==
    (C7_Scenario(problem) /\ heuristic = "astar_heuristic" /\ pc = "returned")
        => /\ result.solution # "failed"
           /\ result.solution = Solution(nodes, node)
           /\ Ids(PathActions(nodes, node)) = {<<0, 0>>, <<1, 1>>}
           /\ Len(PathActions(nodes, node)) = 2
           /\ result.g = Some(1200)

C7_Witness ==
    C7_Scenario(problem) /\ heuristic = "astar_heuristic" /\ Accepted

\* C8: under ucs_heuristic every node created satisfies, in every state,
\* g + (rewards on its path from the root) = sum of the initial target values.
C8_RewardAccounting ==
    heuristic = "ucs_heuristic"
        => \A n \in 1 .. Len(nodes) :
              nodes[n].g + PathReward(nodes, n) = TotalValue(problem)

C8_Witness ==
    /\ heuristic = "ucs_heuristic"
    /\ Accepted
    /\ Len(PathActions(nodes, node)) >= 3
    /\ \E n \in Ids(frontier) : PathReward(nodes, n) > 0

\* C9: a closed node stays closed and the priority stored for its state never
\* decreases in any step.
C9_MonotoneClosed ==
    [][/\ Len(explored') >= Len(explored)
       /\ SubSeq(explored', 1, Len(explored)) = explored
       /\ \A k \in Ids(explored), j \in Ids(explored') :
             NodeEq(nodes[k], nodes'[j]) => nodes'[j].g >= nodes[k].g]_vars

\* a node has been generated whose state equals a closed node's, with a lower
\* priority than the one stored for the closed node
C9_Witness ==
    \E k \in Ids(explored), j \in 1 .. Len(nodes) :
        /\ j # k
        /\ NodeEq(nodes[k], nodes[j])
        /\ nodes[j].g < nodes[k].g
        /\ Len(explored) >= 3

\* C10: Enter at the prompt makes the batch process the interrupted problem
\* again, so a batch that is not aborted leaves its loop with every index of
\* the requested range completed.
C10_RetrySameProblem ==
    (bpc \in {"export", "done"})
        => \A k \in start_idx .. RangeEnd - 1 : k \in completed

\* C11: in solver(), generate_dataset() and the main block alike, wherever the
\* batch is interrupted or aborted the CSV file holds the row of every problem
\* solved before that point.
C11_IncrementalExport ==
    (bpc \in {"prompt", "aborted"} /\ solve_problems)
        => \A k \in completed : ResultRow(k) \in Ids(csv_file)


(***************************************************************************)
(* The search under the scheduling of its single thread: AStar is one      *)
(* synchronous call, so a step that can be taken is taken.  expansions is  *)
(* counted up to MaxExpansions, which no search of these problems reaches. *)
(***************************************************************************)
SpecFair ==
    /\ Init /\ [][Next]_vars
    /\ WF_vars(Pop) /\ WF_vars(Accept) /\ WF_vars(Requeue) /\ WF_vars(ReturnFailed)
    \* weak fairness of Expand, with ENABLED <<Expand>>_vars written as its guard
    /\ ([]<>(~ExpandEnabled) \/ []<><<Expand>>_vars)

\* C12: on every problem and with every heuristic the loop of AStar eventually
\* stops, by accepting a terminal node or by exhausting the frontier; it never
\* pops and pushes back nodes forever.
C12_Termination == <>(pc = "returned")

\* a search that stopped after pushing terminal nodes back onto the frontier
C12_Witness ==
    /\ pc = "returned"
    /\ Len(requeued) >= 2
    /\ result.solution # "failed"

\* C13: with any heuristic a terminal node is pushed back onto the frontier at
\* most once; when a node that was pushed back is popped again its priority
\* equals its parent's priority minus its reward, so it is accepted; and the
\* priority of an expanded node is never modified.
C13_BoundedRevalidation ==
    [][/\ (Len(requeued') > Len(requeued)) => node \notin Ids(requeued)
       /\ (pc' = "popped" /\ node' \in Ids(requeued'))
             => /\ HasParent(nodes'[node']) /\ nodes'[node'].terminal
                /\ nodes'[node'].g
                      = nodes'[nodes'[node'].parent].g - nodes'[node'].reward
       /\ \A n \in Ids(explored) : nodes'[n].g = nodes[n].g]_vars

\* a node that was pushed back has been popped a second time and accepted
C13_Witness ==
    /\ pc = "returned"
    /\ result.solution # "failed"
    /\ node \in Ids(requeued)
    /\ heuristic = "value_heuristic"

\* The state reached, and the reward collected, by applying the actions one
\* after another from state.
RECURSIVE Replay(_, _)
Replay(state, actions) ==
    IF actions = <<>> THEN [state |-> state, reward |-> 0]
    ELSE LET upd == UpdateState(Head(actions), state)
             rest == Replay(upd.state, Tail(actions))
         IN [state |-> rest.state, reward |-> upd.reward + rest.reward]

\* C14: with any heuristic, when AStar accepts a terminal node the returned
\* priority is the sum of the initial target values minus the sum of the rewards
\* of the actions on the returned path, and the node's stored priority is its
\* parent's stored priority minus the node's own reward.
C14_AuthoritativeAccounting ==
    Accepted =>
        /\ result.g = Some(TotalValue(problem)
                            - Replay(problem, PathActions(nodes, node)).reward)
        /\ nodes[node].g = nodes[nodes[node].parent].g - nodes[node].reward

\* a path of three actions accepted under a heuristic that is non-zero on
\* terminal states
C14_Witness ==
    /\ Accepted
    /\ heuristic = "value_heuristic"
    /\ Len(PathActions(nodes, node)) >= 3
    /\ Heuristic(heuristic, nodes[node].state) > 0

\* The number of parent links between node n and the root.
RECURSIVE Depth(_, _)
Depth(ns, n) == IF HasParent(ns[n]) THEN 1 + Depth(ns, ns[n].parent) ELSE 0

\* The actions a solution holds: its pieces other than the commas, read back
\* from their formatted text.
SolutionActions(tokens) ==
    LET texts == SelectSeq(tokens, LAMBDA tok : tok # ",")
    IN [k \in 1 .. Len(texts) |->
            CHOOSE a \in EffectorIds(problem) \X TargetIds(problem) :
                ToString(a) = texts[k]]

\* C15: the solution of an accepted node at depth d holds exactly d actions, in
\* root-to-node order, and applying them one after another to the initial state
\* yields the accepted node's state; the parent links of the created nodes form
\* a tree rooted at the initial node.
C15_SolutionReconstruction ==
    /\ \A n \in 1 .. Len(nodes) :
          IF n = 1 THEN ~HasParent(nodes[n])
          ELSE nodes[n].parent \in 1 .. (n - 1)
    /\ Accepted =>
          LET actions == SolutionActions(SolutionTokens(nodes, node))
          IN /\ result.solution = Join(SolutionTokens(nodes, node))
             /\ Len(actions) = Depth(nodes, node)
             /\ actions = PathActions(nodes, node)
             /\ Replay(problem, actions).state = nodes[node].state

\* an accepted node at depth three whose actions are not all the same
C15_Witness ==
    /\ Accepted
    /\ Depth(nodes, node) >= 3
    /\ \E j, k \in 1 .. Len(PathActions(nodes, node)) :
          PathActions(nodes, node)[j] # PathActions(nodes, node)[k]

\* C16: no step changes the state object of a node that exists, also though
\* update_state writes into the object it is given; every node's object holds
\* the state the node was built with, and no two nodes refer to the same object.
C16_NonAliasing ==
    [][/\ \A n \in 1 .. Len(nodes) :
             /\ nodes'[n].addr = nodes[n].addr
             /\ memory'[nodes[n].addr] = memory[nodes[n].addr]
       /\ \A n \in 1 .. Len(nodes') : memory'[nodes'[n].addr] = nodes'[n].state
       /\ \A j, k \in 1 .. Len(nodes') :
             j # k => nodes'[j].addr # nodes'[k].addr]_vars

\* two nodes have been expanded, and a child's object differs from its parent's
C16_Witness ==
    /\ Len(explored) >= 2
    /\ \E n \in 2 .. Len(nodes) :
          /\ nodes[n].parent = explored[2]
          /\ memory[nodes[n].addr] # memory[nodes[explored[2]].addr]
          /\ memory[nodes[explored[2]].addr] = nodes[explored[2]].state

\* The largest PSUCCESS of an opportunity against target i, selectable or not.
PMax(state, i) ==
    MaxOver([e \in EffectorIds(state) |-> state.Opportunities[<<e, i>>].PSUCCESS],
            EffectorIds(state))

\* The contribution of target i written out for zero, one and two slots.
SlotsContribution(state, i) ==
    LET slots == Min(2 - state.Targets[i].SELECTED, 2 * SelectableCount(state, i))
        v == state.Targets[i].VALUE
        first == (v * PMax(state, i)) \div 10
    IN CASE slots = 0 -> 0
         [] slots = 1 -> first
         [] slots = 2 -> first + ((v - first) * PMax(state, i)) \div 10

\* C17: astar_heuristic is the sum over the targets of the contribution of
\* min(2 (1 - SELECTED), 2 selectable opportunities) successive engagements at
\* the largest PSUCCESS of an opportunity against the target, each taking its
\* reward off the running value; a target that is fully selected or has no
\* selectable opportunity contributes 0, the heuristic is 0 on a state with no
\* selectable opportunity, and any opportunity of largest PSUCCESS gives the
\* same value.
C17_HeuristicAlgorithm ==
    /\ astar_heuristic(walk)
          = SumOver([i \in TargetIds(walk) |-> SlotsContribution(walk, i)],
                    TargetIds(walk))
    /\ \A i \in TargetIds(walk) :
          /\ TargetContribution(walk, i) = SlotsContribution(walk, i)
          /\ (walk.Targets[i].SELECTED = 2 \/ SelectableCount(walk, i) = 0)
                => TargetContribution(walk, i) = 0
          /\ \A e \in EffectorIds(walk) :
                walk.Opportunities[<<e, i>>].PSUCCESS = PMax(walk, i)
                   => TargetContribution(walk, i)
                         = IF RemainingMoves(walk, i) = 0 THEN 0
                           ELSE SimulateMoves(walk.Targets[i].VALUE,
                                              walk.Opportunities[<<e, i>>].PSUCCESS,
                                              RemainingMoves(walk, i))
    /\ ~AnySelectable(walk) => astar_heuristic(walk) = 0

\* a state with a target that has two slots left and two opportunities of
\* equal largest PSUCCESS, and another target that is fully selected
C17_Witness ==
    /\ \E i \in TargetIds(walk) :
          /\ RemainingMoves(walk, i) = 2
          /\ TargetContribution(walk, i) > 0
          /\ \E e1, e2 \in EffectorIds(walk) :
                /\ e1 # e2
                /\ walk.Opportunities[<<e1, i>>].PSUCCESS = PMax(walk, i)
                /\ walk.Opportunities[<<e2, i>>].PSUCCESS = PMax(walk, i)
    /\ \E i \in TargetIds(walk) : walk.Targets[i].SELECTED = 2

\* no two of the listed nodes have element-wise equal states
UniqueStates(ns, list) ==
    \A j, k \in 1 .. Len(list) : j # k => ~NodeEq(ns[list[j]], ns[list[k]])

\* C18: at the start of every loop iteration no two nodes of the frontier and
\* the closed list together have equal states, and a pop never takes the
\* stale branch: the popped node is not in the closed list and is counted as
\* an expansion.
C18_OpenClosedUnique ==
    [][/\ pc = "loop" => UniqueStates(nodes, frontier \o explored)
       /\ pc' = "loop" => UniqueStates(nodes', frontier' \o explored')
       /\ (pc = "loop" /\ frontier # <<>>)
             => /\ pc' = "popped"
                /\ expansions' = expansions + 1
                /\ ~InList(nodes, nodes[node'], explored)]_vars

\* a loop iteration starts with several open and closed nodes after duplicates
\* were discarded
C18_Witness ==
    /\ pc = "loop"
    /\ Len(frontier) >= 2
    /\ Len(explored) >= 3
    /\ duplicate_states >= 2
    /\ expansions >= 4

\* C19: at the start of every loop iteration branchFactor + 1 is the number of
\* nodes in the frontier plus the number in the closed list, and branchFactor +
\* duplicate_states is the number of child nodes generated; pushing a terminal
\* node back changes neither counter, and every pop, of a terminal node too,
\* adds exactly one to expansions.
C19_Statistics ==
    [][/\ pc' = "loop" =>
             /\ branchFactor' + 1 = Len(frontier') + Len(explored')
             /\ branchFactor' + duplicate_states' = Len(nodes') - 1
       /\ Len(requeued') > Len(requeued) =>
             /\ branchFactor' = branchFactor
             /\ duplicate_states' = duplicate_states
             /\ expansions' = expansions
       /\ Len(frontier') < Len(frontier) => expansions' = expansions + 1
       /\ expansions' = Len(explored') + Len(requeued')
                           + (IF pc' = "popped" \/ Accepted' THEN 1 ELSE 0)]_vars

\* a loop iteration starts after terminal nodes were pushed back, children were
\* inserted and duplicates were discarded
C19_Witness ==
    /\ pc = "loop"
    /\ Len(requeued) >= 1
    /\ duplicate_states >= 1
    /\ branchFactor >= 4
    /\ expansions > Len(explored)

\* C20: AStar returns the failure result exactly when the initial state has no
\* selectable opportunity, and when the initial state has a selectable
\* opportunity a terminal node is eventually accepted.
C20_FailureOnlyWithoutOpportunity ==
    /\ [](pc = "returned" => (Failed <=> ~AnySelectable(problem)))
    /\ (AnySelectable(problem) ~> Accepted)

\* a search of a problem with opportunities has accepted a path of two actions
\* while nodes were still open
C20_Witness ==
    /\ Accepted
    /\ AnySelectable(problem)
    /\ Len(PathActions(nodes, node)) >= 2
    /\ frontier # <<>>
=============================================================================
